---- MODULE Spec2Model ----
(***************************************************************************)
(* A model of bimg's libvips binding (vips.go).                            *)
(*                                                                         *)
(*   SpecLife  the process-wide lifecycle: package init(), Initialize()    *)
(*             and Shutdown() run by concurrent callers, step by step,     *)
(*             beside callers of primitives that take no lock.             *)
(*   Spec      one caller driving the binding's primitives over native     *)
(*             image handles: vipsRead, the transforms, vipsSave.          *)
(*                                                                         *)
(* libvips itself is not part of the repository.  It is modelled by what   *)
(* the binding can observe of it: a status per call (chosen freely, so a   *)
(* failure can be injected at any call), handles it hands out, reference   *)
(* drops it receives, and its error buffer.                                *)
(***************************************************************************)
EXTENDS Integers, Sequences, FiniteSets, TLC

VARIABLES
    \* ---- lifecycle (vips.go:23-107)
    version,      \* <<VIPS_MAJOR_VERSION, VIPS_MINOR_VERSION>> of the build
    env,          \* the environment: VIPS_CONCURRENCY, VIPS_TRACE
    m,            \* var m sync.Mutex: 0 when free, else the caller holding it
    osThread,     \* callers with runtime.LockOSThread() in effect
    initialized,  \* var initialized bool
    vips,         \* the engine's process-wide state, as set by the calls made
    pc,           \* where each caller is
    panicMsg,     \* the panic a caller is unwinding or has died of ("" = none)
    phase         \* "loading" (package init running), "running", "crashed"

lifeVars == <<version, env, m, osThread, initialized, vips, pc, panicMsg, phase>>

VARIABLES
    \* ---- one caller driving the binding (vips.go:145-424)
    eng,          \* the engine as the binding sees it: handles, error buffer
    cur,          \* the handle the running chain holds (NoHandle: none)
    curBuf,       \* the buffer the running chain was loaded from
    stage,        \* "idle" (no chain running) or "chain"
    ret,          \* what the last binding call was given and returned
    opts          \* the caller's vipsSaveOptions value, after its last save

chainVars == <<eng, cur, curBuf, stage, ret, opts>>

VARIABLES
    \* ---- one Image value and the methods called on it
    img,          \* Image.buffer
    applied,      \* the operations that have succeeded on it, in order
    described,    \* the size and type the design gives it after them
    meta,         \* what Metadata() returned, if it is the last call made
    last          \* the last method called: its options and what it returned

fluentVars == <<img, applied, described, meta, last>>

vars == <<lifeVars, chainVars, fluentVars>>

----------------------------------------------------------------------------
(* Bounds *)

\* concurrent callers of the lifecycle and of primitives
NProcs == 2

Procs == 1..NProcs

\* the goroutine that runs the package's init()
MainProc == 1

----------------------------------------------------------------------------
(* The engine as the binding sees it *)

\* native handles the engine can hand out in one run
MaxHandles == 4

\* binding calls made in one run
MaxCalls == 3

Handles == 1..MaxHandles

\* a nil *C.struct__VipsImage
NoHandle == 0

\* the largest width or height vipsExtract accepts
MAX_SIZE == 16383

\* the value vipsPreSave substitutes for an unset Interpretation
INTERPRETATION_sRGB == 22

INTERPRETATION_B_W == 1

ImageTypes == { "UNKNOWN", "JPEG", "WEBP", "PNG", "TIFF", "MAGICK" }

Max(a, b) == IF a > b THEN a ELSE b

\* what the engine holds behind a handle: the pixels' size and interpretation
Pix(w, h, i) == [ width |-> w, height |-> h, interpretation |-> i ]

NoPix == Pix(0, 0, 0)

\* an encoded image: the format its bytes are in, and what they decode to
Bytes(f, w, h) == [ len |-> 1, format |-> f, width |-> w, height |-> h ]

\* a []byte of length 0
EmptyBuf == [ len |-> 0, format |-> "", width |-> 0, height |-> 0 ]

(* Go's error values: nil, errors.New(text), and the error catchVipsError    *)
(* makes of the engine's error buffer (the messages the buffer held).        *)
NilErr == [ nil |-> TRUE, text |-> "", vips |-> <<>> ]

ErrorsNew(text) == [ nil |-> FALSE, text |-> text, vips |-> <<>> ]

\* the engine with nothing allocated.
\*   next     handles handed out so far (they are 1..next)
\*   unrefs   g_object_unref calls received, per handle
\*   stale    handles the binding passed to the engine after releasing them
\*   errbuf   the error buffer: one entry per failed engine call
\*   log      the engine calls of the binding call in progress, in order
\*   call     the number of the binding call in progress
EngineStart ==
    [ next |-> 0, unrefs |-> [h \in Handles |-> 0], pix |-> [h \in Handles |-> NoPix],
      stale |-> {}, errbuf |-> <<>>, log |-> <<>>, call |-> 0 ]

\* handles created and not released
Live(e) == { h \in 1..e.next : e.unrefs[h] = 0 }

\* the engine is called, with handles among its arguments
Called(e, name, ins) ==
    [ e EXCEPT !.log = Append(@, name),
               !.stale = @ \cup { h \in ins : h # NoHandle /\ e.unrefs[h] > 0 } ]

\* a failed engine call leaves its message in the error buffer
Failed(e, name) ==
    [ e EXCEPT !.errbuf = Append(@, [ op |-> name, call |-> e.call ]) ]

\* an engine call that makes an image: status 0 and a new handle, or a
\* non-zero status, a message and no handle
Native(e, name, ins, fail, pix) ==
    LET e1 == Called(e, name, ins) IN
    IF fail
    THEN [ eng |-> Failed(e1, name), out |-> NoHandle, status |-> 1 ]
    ELSE [ eng |-> [ e1 EXCEPT !.next = @ + 1, !.pix[e.next + 1] = pix ],
           out |-> e.next + 1, status |-> 0 ]

\* C.g_object_unref(C.gpointer(image))
Unref(e, h) ==
    IF h = NoHandle
    THEN [ e EXCEPT !.log = Append(@, "g_object_unref") ]
    ELSE [ e EXCEPT !.log = Append(@, "g_object_unref"), !.unrefs[h] = @ + 1 ]

\* how often the binding call in progress has called `name`
Count(e, name) == Cardinality({ i \in 1..Len(e.log) : e.log[i] = name })

----------------------------------------------------------------------------
(* func catchVipsError() error *)

catchVipsError(e) ==
    [ eng |-> [ e EXCEPT !.log = @ \o << "vips_error_buffer", "vips_error_clear",
                                          "vips_thread_shutdown" >>,
                         !.errbuf = <<>> ],
      err |-> [ nil |-> FALSE, text |-> "", vips |-> e.errbuf ] ]

----------------------------------------------------------------------------
(* func vipsImageType(buf []byte) ImageType *)

\* the loaders the engine was built with; any other bytes have no loader
LoaderFormats == { "Jpeg", "Png", "Tiff", "Webp", "Magick", "Gif" }

\* C.vips_foreign_find_load_buffer: the loader's class name, or NULL, which
\* C.GoString turns into ""
FindLoadBuffer(buf) ==
    IF buf.format \in LoaderFormats
    THEN "VipsForeignLoad" \o buf.format \o "Buffer"
    ELSE ""

\* strings.HasSuffix over the names the engine can return
HasSuffix(s, suffix) ==
    \E f \in LoaderFormats \cup {""} :
        \E pre \in {"", "VipsForeignLoad", "VipsForeignLoad" \o f} :
            s = pre \o suffix

\* `noted`: the engine left a message in its error buffer when it found no
\* loader (libvips does; the binding cannot tell)
vipsImageType(e, buf, noted) ==
    IF buf.len = 0
    THEN [ eng |-> e, type |-> "UNKNOWN" ]
    ELSE LET bufferType == FindLoadBuffer(buf)
             e1 == Called(e, "vips_foreign_find_load_buffer", {})
             e2 == IF bufferType = "" /\ noted
                   THEN Failed(e1, "vips_foreign_find_load_buffer")
                   ELSE e1
         IN [ eng |-> e2,
              type |-> CASE HasSuffix(bufferType, "JpegBuffer")   -> "JPEG"
                         [] HasSuffix(bufferType, "PngBuffer")    -> "PNG"
                         [] HasSuffix(bufferType, "TiffBuffer")   -> "TIFF"
                         [] HasSuffix(bufferType, "WebpBuffer")   -> "WEBP"
                         [] HasSuffix(bufferType, "MagickBuffer") -> "MAGICK"
                         [] OTHER                                 -> "UNKNOWN" ]

----------------------------------------------------------------------------
(* func vipsRead(buf []byte): the handle, the type, the error *)

\* vipsRead without its test for UNKNOWN
vipsRead_NoUnknownTest(e, buf, noted, fail) ==
    LET t == vipsImageType(e, buf, noted)
        r == Native(t.eng, "vips_init_image", {}, fail,
                    Pix(buf.width, buf.height, INTERPRETATION_sRGB))
    IN IF r.status # 0
       THEN LET c == catchVipsError(r.eng)
            IN [ eng |-> c.eng, out |-> NoHandle, type |-> "UNKNOWN", err |-> c.err ]
       ELSE [ eng |-> r.eng, out |-> r.out, type |-> t.type, err |-> NilErr ]

vipsRead(e, buf, noted, fail) ==
    LET t == vipsImageType(e, buf, noted) IN
    IF t.type = "UNKNOWN"
    THEN [ eng |-> t.eng, out |-> NoHandle, type |-> "UNKNOWN",
           err |-> ErrorsNew("Unsupported image format") ]
    ELSE LET r == Native(t.eng, "vips_init_image", {}, fail,
                         Pix(buf.width, buf.height, INTERPRETATION_sRGB))
         IN IF r.status # 0
            THEN LET c == catchVipsError(r.eng)
                 IN [ eng |-> c.eng, out |-> NoHandle, type |-> "UNKNOWN", err |-> c.err ]
            ELSE [ eng |-> r.eng, out |-> r.out, type |-> t.type, err |-> NilErr ]

----------------------------------------------------------------------------
(* The transforms.  Each `defer C.g_object_unref(...)` runs when the         *)
(* function returns, after catchVipsError on the failure path.               *)

\* a primitive that releases its input on the success path only
Consuming_KeptOnFailure(e, name, image, fail, pix) ==
    LET r == Native(e, name, {image}, fail, pix) IN
    IF r.status # 0
    THEN LET c == catchVipsError(r.eng)
         IN [ eng |-> c.eng, out |-> NoHandle, err |-> c.err ]
    ELSE [ eng |-> Unref(r.eng, image), out |-> r.out, err |-> NilErr ]

\* a primitive that defers the release of its input and makes one engine call
Consuming(e, name, image, fail, pix) ==
    LET r == Native(e, name, {image}, fail, pix) IN
    IF r.status # 0
    THEN LET c == catchVipsError(r.eng)
         IN [ eng |-> Unref(c.eng, image), out |-> NoHandle, err |-> c.err ]
    ELSE [ eng |-> Unref(r.eng, image), out |-> r.out, err |-> NilErr ]

\* vipsRotate with its test of the status inverted
vipsRotate_StatusInverted(e, image, angle, fail) ==
    LET p == e.pix[image]
        r == Native(e, "vips_rotate", {image}, fail,
                    IF angle \in {90, 270}
                    THEN Pix(p.height, p.width, p.interpretation)
                    ELSE p)
    IN IF r.status = 0
       THEN LET c == catchVipsError(r.eng)
            IN [ eng |-> Unref(c.eng, image), out |-> NoHandle, err |-> c.err ]
       ELSE [ eng |-> Unref(r.eng, image), out |-> r.out, err |-> NilErr ]

\* func vipsRotate(image, angle)
vipsRotate(e, image, angle, fail) ==
    LET p == e.pix[image] IN
    Consuming(e, "vips_rotate", image, fail,
              IF angle \in {90, 270}
              THEN Pix(p.height, p.width, p.interpretation)
              ELSE p)

\* func vipsFlip(image, direction)
vipsFlip(e, image, direction, fail) ==
    Consuming(e, "vips_flip_bridge", image, fail, e.pix[image])

\* func vipsZoom(image, zoom)
vipsZoom(e, image, zoom, fail) ==
    LET p == e.pix[image] IN
    Consuming(e, "vips_zoom_bridge", image, fail,
              Pix(p.width * zoom, p.height * zoom, p.interpretation))

\* func vipsWatermark(image, w): no release of the input is deferred
vipsWatermark(e, image, fail) ==
    LET r == Native(e, "vips_watermark", {image}, fail, e.pix[image]) IN
    IF r.status # 0
    THEN LET c == catchVipsError(r.eng)
         IN [ eng |-> c.eng, out |-> NoHandle, err |-> c.err ]
    ELSE [ eng |-> r.eng, out |-> r.out, err |-> NilErr ]

\* vipsExtract without its size test
vipsExtract_NoSizeTest(e, image, left, top, width, height, fail) ==
    Consuming(e, "vips_extract_area_bridge", image, fail,
              Pix(width, height, e.pix[image].interpretation))

\* func vipsExtract(image, left, top, width, height)
vipsExtract(e, image, left, top, width, height, fail) ==
    IF width > MAX_SIZE \/ height > MAX_SIZE
    THEN [ eng |-> Unref(e, image), out |-> NoHandle,
           err |-> ErrorsNew("Maximum image size exceeded") ]
    ELSE Consuming(e, "vips_extract_area_bridge", image, fail,
                   Pix(width, height, e.pix[image].interpretation))

\* func vipsShrinkJpeg(buf, input, shrink): the output is loaded from buf
vipsShrinkJpeg(e, buf, input, shrink, fail) ==
    LET r == Native(e, "vips_jpegload_buffer_shrink", {}, fail,
                    Pix(Max(1, buf.width \div shrink), Max(1, buf.height \div shrink),
                        INTERPRETATION_sRGB))
    IN IF r.status # 0
       THEN LET c == catchVipsError(r.eng)
            IN [ eng |-> Unref(c.eng, input), out |-> NoHandle, err |-> c.err ]
       ELSE [ eng |-> Unref(r.eng, input), out |-> r.out, err |-> NilErr ]

\* func vipsShrink(input, shrink)
vipsShrink(e, input, shrink, fail) ==
    LET p == e.pix[input] IN
    Consuming(e, "vips_shrink_bridge", input, fail,
              Pix(Max(1, p.width \div shrink), Max(1, p.height \div shrink),
                  p.interpretation))

\* func vipsEmbed(input, left, top, width, height, extend)
vipsEmbed(e, input, left, top, width, height, extend, fail) ==
    Consuming(e, "vips_embed_bridge", input, fail,
              Pix(width, height, e.pix[input].interpretation))

\* func vipsAffine(input, residualx, residualy, i): the residuals are given
\* here as whole factors.  The interpolator is an engine object of its own;
\* the deferred calls run last-registered first.
vipsAffine(e, input, residualx, residualy, fail) ==
    LET p == e.pix[input]
        n == Native(e, "vips_interpolate_new", {}, FALSE, NoPix)
        interpolator == n.out
        r == Native(n.eng, "vips_affine_interpolator", {input, interpolator}, fail,
                    Pix(p.width * residualx, p.height * residualy, p.interpretation))
    IN IF r.status # 0
       THEN LET c == catchVipsError(r.eng)
            IN [ eng |-> Unref(Unref(c.eng, interpolator), input),
                 out |-> NoHandle, err |-> c.err ]
       ELSE [ eng |-> Unref(Unref(r.eng, interpolator), input),
              out |-> r.out, err |-> NilErr ]

----------------------------------------------------------------------------
(* The read-only queries *)

\* a read-only engine call on an image
Query(e, name, image) == Called(e, name, {image})

\* what vipsInterpretationBuffer returns beside an error
INTERPRETATION_ERROR == -1

\* func vipsColourspaceIsSupportedBuffer(buf []byte) (bool, error)
\* The handle is released before vipsColourspaceIsSupported is given it: the
\* engine then reads an object it may have freed, and `answer` is whatever
\* it makes of it.
vipsColourspaceIsSupportedBuffer(e, buf, noted, fail, answer) ==
    LET r == vipsRead(e, buf, noted, fail) IN
    IF ~r.err.nil
    THEN [ eng |-> r.eng, out |-> FALSE, err |-> r.err ]
    ELSE [ eng |-> Query(Unref(r.eng, r.out),
                         "vips_colourspace_issupported_bridge", r.out),
           out |-> answer, err |-> NilErr ]

\* func vipsInterpretationBuffer(buf []byte) (Interpretation, error)
\* The same order: release, then vipsInterpretation of the released handle.
vipsInterpretationBuffer(e, buf, noted, fail, answer) ==
    LET r == vipsRead(e, buf, noted, fail) IN
    IF ~r.err.nil
    THEN [ eng |-> r.eng, out |-> INTERPRETATION_ERROR, err |-> r.err ]
    ELSE [ eng |-> Query(Unref(r.eng, r.out),
                         "vips_image_guess_interpretation_bridge", r.out),
           out |-> answer, err |-> NilErr ]

----------------------------------------------------------------------------
(* func vipsPreSave(image, o *vipsSaveOptions) *)

\* vipsPreSave that leaves an unset Interpretation as it is
vipsPreSave_NoDefault(e, image, o, supported, fail) ==
    LET e1 == IF o.NoProfile THEN Query(e, "remove_profile", image) ELSE e
        e2 == Query(e1, "vips_colourspace_issupported_bridge", image)
        p  == e.pix[image]
    IN IF supported
       THEN LET r == Native(e2, "vips_colourspace_bridge", {image}, fail,
                            Pix(p.width, p.height, o.Interpretation))
            IN IF r.status # 0
               THEN LET c == catchVipsError(r.eng)
                    IN [ eng |-> c.eng, out |-> NoHandle, err |-> c.err, o |-> o ]
               ELSE [ eng |-> Unref(r.eng, image), out |-> r.out, err |-> NilErr,
                      o |-> o ]
       ELSE [ eng |-> e2, out |-> image, err |-> NilErr, o |-> o ]

\* `supported`: what C.vips_colourspace_issupported_bridge answers.
\* o is the options value the pointer refers to, as the function leaves it.
vipsPreSave(e, image, o, supported, fail) ==
    LET e1 == IF o.NoProfile THEN Query(e, "remove_profile", image) ELSE e
        o1 == IF o.Interpretation = 0
              THEN [ o EXCEPT !.Interpretation = INTERPRETATION_sRGB ]
              ELSE o
        e2 == Query(e1, "vips_colourspace_issupported_bridge", image)
        p  == e.pix[image]
    IN IF supported
       THEN LET r == Native(e2, "vips_colourspace_bridge", {image}, fail,
                            Pix(p.width, p.height, o1.Interpretation))
            IN IF r.status # 0
               THEN LET c == catchVipsError(r.eng)
                    IN [ eng |-> c.eng, out |-> NoHandle, err |-> c.err, o |-> o1 ]
               ELSE [ eng |-> Unref(r.eng, image), out |-> r.out, err |-> NilErr,
                      o |-> o1 ]
       ELSE [ eng |-> e2, out |-> image, err |-> NilErr, o |-> o1 ]

----------------------------------------------------------------------------
(* func vipsSave(image, o vipsSaveOptions) ([]byte, error) *)

\* a switch whose WEBP case is missing
Encoder_NoWebpCase(type) ==
    CASE type = "PNG"  -> [ call |-> "vips_pngsave_bridge", format |-> "Png" ]
      [] OTHER         -> [ call |-> "vips_jpegsave_bridge", format |-> "Jpeg" ]

\* a switch whose PNG case is missing
Encoder_NoPngCase(type) ==
    CASE type = "WEBP" -> [ call |-> "vips_webpsave_bridge", format |-> "Webp" ]
      [] OTHER         -> [ call |-> "vips_jpegsave_bridge", format |-> "Jpeg" ]

\* the encoder the switch on o.Type calls, and the format it writes
Encoder(type) ==
    CASE type = "WEBP" -> [ call |-> "vips_webpsave_bridge", format |-> "Webp" ]
      [] type = "PNG"  -> [ call |-> "vips_pngsave_bridge", format |-> "Png" ]
      [] OTHER         -> [ call |-> "vips_jpegsave_bridge", format |-> "Jpeg" ]

\* `defer C.g_object_unref(C.gpointer(image))` is the function's first
\* statement: its argument is the handle the function was called with, not
\* the one vipsPreSave returns.  o is save's own copy of the options, and
\* image (in the result) its variable `image` after vipsPreSave has returned.
vipsSave(e, image, o, supported, failCs, failEnc) ==
    LET pre == vipsPreSave(e, image, o, supported, failCs) IN
    IF ~pre.err.nil
    THEN [ eng |-> Unref(pre.eng, image), buf |-> EmptyBuf, err |-> pre.err,
           o |-> pre.o, image |-> pre.out ]
    ELSE LET enc == Encoder(pre.o.Type)
             e1  == Called(pre.eng, enc.call, {pre.out})
             p   == pre.eng.pix[pre.out]
         IN IF failEnc
            THEN LET c == catchVipsError(Failed(e1, enc.call))
                 IN [ eng |-> Unref(c.eng, image), buf |-> EmptyBuf, err |-> c.err,
                      o |-> pre.o, image |-> pre.out ]
            ELSE LET e2 == [ e1 EXCEPT !.log = @ \o << "g_free", "vips_error_clear" >>,
                                       !.errbuf = <<>> ]
                 IN [ eng |-> Unref(e2, image),
                      buf |-> Bytes(enc.format, p.width, p.height),
                      err |-> NilErr, o |-> pre.o, image |-> pre.out ]

----------------------------------------------------------------------------
(* One caller driving the binding: load, any primitives, save.  A chain     *)
(* passes each primitive the handle the one before returned, and returns    *)
(* at the first error.                                                      *)

\* the buffers a caller loads
InputBuffers ==
    { EmptyBuf, Bytes("Jpeg", 4, 2), Bytes("Png", 2, 2), Bytes("Gif", 2, 2),
      Bytes("Text", 0, 0) }

\* the widths and heights a caller extracts
ExtractSizes == { 1, MAX_SIZE, MAX_SIZE + 1 }

\* the options values a caller saves with
SaveOptionValues ==
    [ Quality : {80}, Compression : {6}, Interlace : {FALSE},
      Type : ImageTypes, NoProfile : BOOLEAN,
      Interpretation : {0, INTERPRETATION_B_W} ]

\* the zero value of vipsSaveOptions
ZeroOptions ==
    [ Quality |-> 0, Compression |-> 0, Interlace |-> FALSE, Type |-> "UNKNOWN",
      NoProfile |-> FALSE, Interpretation |-> 0 ]

\* a binding call as its caller sees it: what it was given (in, args, buf),
\* what it returned (out, err, buf, type), and how many handles the engine
\* made meanwhile
Ret(op, in, args, r) ==
    [ op |-> op, in |-> in, args |-> args, out |-> r.out, err |-> r.err,
      buf |-> EmptyBuf, type |-> "UNKNOWN", made |-> r.eng.next - eng.next ]

NoRet ==
    [ op |-> "", in |-> NoHandle, args |-> <<>>, out |-> NoHandle, err |-> NilErr,
      buf |-> EmptyBuf, type |-> "UNKNOWN", made |-> 0 ]

ChainStart ==
    /\ eng = EngineStart
    /\ cur = NoHandle
    /\ curBuf = EmptyBuf
    /\ stage = "idle"
    /\ ret = NoRet
    /\ opts = ZeroOptions

\* the next binding call begins
Begin(e) == [ e EXCEPT !.log = <<>>, !.call = @ + 1 ]

\* a binding call that may need n new handles can be made
CanCall(n) == eng.call < MaxCalls /\ eng.next + n <= MaxHandles

Load ==
    /\ stage = "idle"
    /\ CanCall(1)
    /\ \E buf \in InputBuffers, noted \in BOOLEAN, fail \in BOOLEAN :
         LET r == vipsRead(Begin(eng), buf, noted, fail) IN
         /\ eng' = r.eng
         /\ ret' = [ Ret("vipsRead", NoHandle, <<>>, r) EXCEPT !.buf = buf,
                                                             !.type = r.type ]
         /\ cur' = r.out
         /\ curBuf' = IF r.err.nil THEN buf ELSE EmptyBuf
         /\ stage' = IF r.err.nil THEN "chain" ELSE "idle"
    /\ UNCHANGED opts
    /\ UNCHANGED <<lifeVars, fluentVars>>

\* a primitive of the chain has returned r
Step(op, args, r) ==
    /\ eng' = r.eng
    /\ ret' = Ret(op, cur, args, r)
    /\ cur' = r.out
    /\ curBuf' = IF r.err.nil THEN curBuf ELSE EmptyBuf
    /\ stage' = IF r.err.nil THEN "chain" ELSE "idle"
    /\ UNCHANGED opts
    /\ UNCHANGED <<lifeVars, fluentVars>>

Rotate ==
    /\ stage = "chain"
    /\ CanCall(1)
    /\ \E angle \in {90}, fail \in BOOLEAN :
         Step("vipsRotate", <<angle>>, vipsRotate(Begin(eng), cur, angle, fail))

Flip ==
    /\ stage = "chain"
    /\ CanCall(1)
    /\ \E direction \in {1}, fail \in BOOLEAN :
         Step("vipsFlip", <<direction>>, vipsFlip(Begin(eng), cur, direction, fail))

Zoom ==
    /\ stage = "chain"
    /\ CanCall(1)
    /\ \E zoom \in {2}, fail \in BOOLEAN :
         Step("vipsZoom", <<zoom>>, vipsZoom(Begin(eng), cur, zoom, fail))

Watermark ==
    /\ stage = "chain"
    /\ CanCall(1)
    /\ \E fail \in BOOLEAN :
         Step("vipsWatermark", <<>>, vipsWatermark(Begin(eng), cur, fail))

Extract ==
    /\ stage = "chain"
    /\ CanCall(1)
    /\ \E width \in ExtractSizes, height \in ExtractSizes, fail \in BOOLEAN :
         Step("vipsExtract", <<0, 0, width, height>>,
              vipsExtract(Begin(eng), cur, 0, 0, width, height, fail))

ShrinkJpeg ==
    /\ stage = "chain"
    /\ CanCall(1)
    /\ curBuf.format = "Jpeg"
    /\ \E shrink \in {2}, fail \in BOOLEAN :
         Step("vipsShrinkJpeg", <<shrink>>,
              vipsShrinkJpeg(Begin(eng), curBuf, cur, shrink, fail))

Shrink ==
    /\ stage = "chain"
    /\ CanCall(1)
    /\ \E shrink \in {2}, fail \in BOOLEAN :
         Step("vipsShrink", <<shrink>>, vipsShrink(Begin(eng), cur, shrink, fail))

Embed ==
    /\ stage = "chain"
    /\ CanCall(1)
    /\ \E width \in {8}, height \in {8}, fail \in BOOLEAN :
         Step("vipsEmbed", <<0, 0, width, height, 0>>,
              vipsEmbed(Begin(eng), cur, 0, 0, width, height, 0, fail))

Affine ==
    /\ stage = "chain"
    /\ CanCall(2)
    /\ \E residual \in {2}, fail \in BOOLEAN :
         Step("vipsAffine", <<residual, residual>>,
              vipsAffine(Begin(eng), cur, residual, residual, fail))

\* vipsSave takes its options by value and hands vipsPreSave the address of
\* its own copy: what the caller's value is after the call
CallerOptions_SharedWithCallee(given, copy) == copy

CallerOptions(given, copy) == given

\* the chain ends here, with the encoded buffer or with the error.  Of a save
\* ret keeps the answers the engine was made to give and the options (args),
\* and the handle the encoder was given (out).
Save ==
    /\ stage = "chain"
    /\ CanCall(1)
    /\ \E o \in SaveOptionValues, supported \in BOOLEAN, failCs \in BOOLEAN,
          failEnc \in BOOLEAN :
         LET r == vipsSave(Begin(eng), cur, o, supported, failCs, failEnc) IN
         /\ eng' = r.eng
         /\ ret' = [ op |-> "vipsSave", in |-> cur,
                     args |-> << supported, o, failCs, failEnc >>, out |-> r.image,
                     err |-> r.err, buf |-> r.buf, type |-> "UNKNOWN",
                     made |-> r.eng.next - eng.next ]
         /\ opts' = CallerOptions(o, r.o)
    /\ cur' = NoHandle
    /\ curBuf' = EmptyBuf
    /\ stage' = "idle"
    /\ UNCHANGED <<lifeVars, fluentVars>>

----------------------------------------------------------------------------
(* A caller of the buffer-level queries.  Of a query ret keeps the answer   *)
(* (out) in place of a handle.                                              *)

\* a query on buf has returned r
Asked(op, buf, r) ==
    /\ eng' = r.eng
    /\ ret' = [ op |-> op, in |-> NoHandle, args |-> <<>>, out |-> r.out,
                err |-> r.err, buf |-> buf, type |-> "UNKNOWN",
                made |-> r.eng.next - eng.next ]
    /\ UNCHANGED <<cur, curBuf, stage, opts>>
    /\ UNCHANGED <<lifeVars, fluentVars>>

ColourspaceIsSupportedBuffer ==
    /\ stage = "idle"
    /\ CanCall(1)
    /\ \E buf \in InputBuffers, noted \in BOOLEAN, fail \in BOOLEAN,
          answer \in BOOLEAN :
         Asked("vipsColourspaceIsSupportedBuffer", buf,
               vipsColourspaceIsSupportedBuffer(Begin(eng), buf, noted, fail, answer))

InterpretationBuffer ==
    /\ stage = "idle"
    /\ CanCall(1)
    /\ \E buf \in InputBuffers, noted \in BOOLEAN, fail \in BOOLEAN,
          answer \in { INTERPRETATION_ERROR, INTERPRETATION_B_W,
                       INTERPRETATION_sRGB } :
         Asked("vipsInterpretationBuffer", buf,
               vipsInterpretationBuffer(Begin(eng), buf, noted, fail, answer))

QueryNext ==
    \/ ColourspaceIsSupportedBuffer
    \/ InterpretationBuffer

----------------------------------------------------------------------------
(* The Image value and the pipeline behind its methods.  Their source       *)
(* (image.go, resize.go, metadata.go) is not among the files modelled; they *)
(* are written here from the design's description of them, over the         *)
(* binding's functions above.                                               *)

\* operations made on one Image in one run
MaxOps == 3

\* the zero value of Options
NoOptions == [ Width |-> 0, Flip |-> FALSE, Rotate |-> 0, Type |-> "UNKNOWN" ]

\* ImageTypeName
ImageTypeName(t) ==
    CASE t = "JPEG" -> "jpeg" [] t = "PNG" -> "png" [] t = "WEBP" -> "webp"
      [] t = "TIFF" -> "tiff" [] t = "MAGICK" -> "magick" [] OTHER -> "unknown"

\* n / d rounded to the nearest whole number
Round(n, d) == (2 * n + d) \div (2 * d)

Min(a, b) == IF a < b THEN a ELSE b

\* the handles of a call that has returned are not used again: the next call
\* numbers its handles anew.  The error buffer stays as it is.
Recycle(e) == [ EngineStart EXCEPT !.errbuf = e.errbuf ]

\* F of the value of x
Then(x, F(_)) == CHOOSE y \in { F(v) : v \in {x} } : TRUE

\* the angle is one the rotate primitive takes
ValidAngle(angle) == angle % 90 = 0

\* Resize(buf, o): one load -> transform -> save round trip.  A width asks
\* for a shrink by a whole factor (on load, for a JPEG) and an extract of the
\* target size.  An angle that is not a multiple of 90 is rejected before
\* anything is loaded.
Resize(e, buf, o, supported, failRead, failEnc) ==
    IF ~ValidAngle(o.Rotate)
    THEN [ eng |-> e, buf |-> EmptyBuf, err |-> ErrorsNew("InvalidParameter") ]
    ELSE
    Then(vipsRead(e, buf, TRUE, failRead), LAMBDA r :
      IF ~r.err.nil
      THEN [ eng |-> r.eng, buf |-> EmptyBuf, err |-> r.err ]
      ELSE LET src    == r.eng.pix[r.out]
               w      == IF o.Width > 0 THEN o.Width ELSE src.width
               h      == IF o.Width > 0
                         THEN Max(1, Round(o.Width * src.height, src.width))
                         ELSE src.height
               factor == Min(src.width \div w, src.height \div h)
               so     == [ ZeroOptions EXCEPT
                             !.Quality = 80,
                             !.Type = IF o.Type = "UNKNOWN" THEN r.type ELSE o.Type ]
           IN
           Then(IF factor < 2
                THEN [ eng |-> r.eng, out |-> r.out, err |-> NilErr ]
                ELSE IF r.type = "JPEG"
                     THEN vipsShrinkJpeg(r.eng, buf, r.out, factor, FALSE)
                     ELSE vipsShrink(r.eng, r.out, factor, FALSE), LAMBDA s :
           Then(IF o.Width > 0
                THEN vipsExtract(s.eng, s.out, 0, 0, w, h, FALSE)
                ELSE s, LAMBDA x :
           Then(IF o.Rotate % 360 # 0
                THEN vipsRotate(x.eng, x.out, o.Rotate, FALSE)
                ELSE x, LAMBDA t :
           Then(IF ~t.err.nil
                THEN t
                ELSE IF o.Flip THEN vipsFlip(t.eng, t.out, 1, FALSE) ELSE t, LAMBDA f :
           Then(IF ~f.err.nil
                THEN [ eng |-> f.eng, buf |-> EmptyBuf, err |-> f.err ]
                ELSE vipsSave(f.eng, f.out, so, supported, FALSE, failEnc), LAMBDA v :
             [ eng |-> v.eng, buf |-> v.buf, err |-> v.err ]))))))

\* Metadata(buf): a load, the queries, and the release of the load
Metadata(e, buf, fail) ==
    LET r == vipsRead(e, buf, TRUE, fail) IN
    IF ~r.err.nil
    THEN [ eng |-> r.eng, err |-> r.err, width |-> 0, height |-> 0, type |-> "unknown" ]
    ELSE [ eng |-> Unref(r.eng, r.out), err |-> NilErr,
           width |-> r.eng.pix[r.out].width, height |-> r.eng.pix[r.out].height,
           type |-> ImageTypeName(r.type) ]

\* what the design says an operation does to an image of size and type x
Described(x, o) ==
    LET w == IF o.Width > 0 THEN o.Width ELSE x.width
        h == IF o.Width > 0
             THEN Max(1, Round(o.Width * x.height, x.width))
             ELSE x.height
        turned == o.Rotate % 180 = 90
    IN [ width  |-> IF turned THEN h ELSE w,
         height |-> IF turned THEN w ELSE h,
         type   |-> IF o.Type = "UNKNOWN" THEN x.type ELSE o.Type ]

\* the images a caller wraps with NewImage
ImageBuffers == { Bytes("Jpeg", 4, 2), Bytes("Png", 4, 4) }

NoMeta == [ valid |-> FALSE, width |-> 0, height |-> 0, type |-> "" ]

\* a method call as its caller sees it: the options it stands for, the error
\* it returned, and whether an engine call was made to fail during it
Last(name, o, err, injected) ==
    [ name |-> name, o |-> o, err |-> err, injected |-> injected ]

NoLast == Last("", NoOptions, NilErr, FALSE)

FluentStart ==
    /\ img = EmptyBuf
    /\ applied = <<>>
    /\ described = [ width |-> 0, height |-> 0, type |-> "UNKNOWN" ]
    /\ meta = NoMeta
    /\ last = NoLast

\* image := NewImage(buf)
FluentInit ==
    /\ img \in ImageBuffers
    /\ applied = <<>>
    /\ described = [ width |-> img.width, height |-> img.height,
                     type |-> vipsImageType(EngineStart, img, FALSE).type ]
    /\ meta = NoMeta
    /\ last = NoLast

\* func (i *Image) Process(o Options): the buffer Resize returns becomes the
\* Image's buffer
Image_Process(name, o) ==
    /\ Len(applied) < MaxOps
    /\ \E supported \in BOOLEAN, failRead \in BOOLEAN, failEnc \in BOOLEAN :
         \E r \in { Resize(Begin(Recycle(eng)), img, o, supported, failRead, failEnc) } :
         /\ eng' = r.eng
         /\ img' = IF r.err.nil THEN r.buf ELSE img
         /\ applied' = IF r.err.nil THEN Append(applied, name) ELSE applied
         /\ described' = IF r.err.nil THEN Described(described, o) ELSE described
         /\ last' = Last(name, o, r.err, failRead \/ failEnc)
    /\ meta' = NoMeta
    /\ UNCHANGED <<cur, curBuf, stage, ret, opts>>
    /\ UNCHANGED lifeVars

Image_CropByWidth ==
    \E width \in {1, 2} :
        Image_Process("CropByWidth", [ NoOptions EXCEPT !.Width = width ])

Image_Flip == Image_Process("Flip", [ NoOptions EXCEPT !.Flip = TRUE ])

\* to one of the formats save can write
Image_Convert ==
    \E t \in {"JPEG", "PNG", "WEBP"} :
        Image_Process("Convert", [ NoOptions EXCEPT !.Type = t ])

\* func (i *Image) Rotate(a Angle)
Image_Rotate ==
    \E angle \in {45, 90} :
        Image_Process("Rotate", [ NoOptions EXCEPT !.Rotate = angle ])

\* func (i *Image) Metadata()
Image_Metadata ==
    /\ \E fail \in BOOLEAN :
         \E r \in { Metadata(Begin(Recycle(eng)), img, fail) } :
         /\ eng' = r.eng
         /\ meta' = IF r.err.nil
                    THEN [ valid |-> TRUE, width |-> r.width, height |-> r.height,
                           type |-> r.type ]
                    ELSE NoMeta
         /\ last' = Last("Metadata", NoOptions, r.err, fail)
    /\ UNCHANGED <<img, applied, described>>
    /\ UNCHANGED <<cur, curBuf, stage, ret, opts>>
    /\ UNCHANGED lifeVars

FluentNext ==
    \/ Image_CropByWidth
    \/ Image_Flip
    \/ Image_Convert
    \/ Image_Rotate
    \/ Image_Metadata

----------------------------------------------------------------------------
(* Lifecycle: constants and the engine's process-wide state *)

maxCacheMem == 100 * 1024 * 1024

maxCacheSize == 500

\* the version test of Initialize: panic iff this holds
MinMajor == 7

MinMinor == 40

\* builds of the engine the model is checked against
Versions == { <<6, 50>>, <<7, 39>>, <<7, 40>>, <<8, 2>> }

\* os.Getenv of the two toggles: "" when unset
Envs == [ VIPS_CONCURRENCY : {"", "4"}, VIPS_TRACE : {"", "1"} ]

\* the engine before vips_init and after vips_shutdown: nothing configured.
\* downs counts the vips_shutdown() calls made since an Initialize last
\* completed (it stops counting at 2).
EngineDown ==
    [ up |-> FALSE, maxMem |-> 0, maxOps |-> 0, concurrency |-> 0,
      trace |-> FALSE, downs |-> 0 ]

\* lexicographic order on (major, minor)
VersionBelow(v, w) == v[1] < w[1] \/ (v[1] = w[1] /\ v[2] < w[2])

\* the condition Initialize panics on
UnsupportedVersion(v) == v[1] <= MinMajor /\ v[2] < MinMinor

\* program positions inside Initialize, after the version test
InitLocked ==
    { "init_osthread", "init_vips", "init_cache_mem", "init_cache_max",
      "init_concurrency", "init_trace", "init_flag",
      "init_defer_osthread", "init_defer_unlock" }

\* program positions inside Shutdown, after m.Lock()
ShutdownLocked == { "sd_check", "sd_vips", "sd_flag", "sd_defer_unlock" }

\* a caller may start a call: package init runs alone, on the main goroutine
MayCall(p) ==
    /\ pc[p] = "idle"
    /\ phase = "running"

LifeInit ==
    /\ version \in Versions
    /\ env \in Envs
    /\ m = 0
    /\ osThread = {}
    /\ initialized = FALSE
    /\ vips = EngineDown
    /\ pc = [p \in Procs |-> "idle"]
    /\ panicMsg = [p \in Procs |-> ""]
    /\ phase = "loading"
    /\ ChainStart
    /\ FluentStart

----------------------------------------------------------------------------
(* func init() { Initialize() } *)

PackageInit ==
    /\ phase = "loading"
    /\ pc[MainProc] = "idle"
    /\ pc' = [pc EXCEPT ![MainProc] = "init_version"]
    /\ UNCHANGED <<chainVars, fluentVars>>
    /\ UNCHANGED <<version, env, m, osThread, initialized, vips, panicMsg, phase>>

----------------------------------------------------------------------------
(* func Initialize() *)

Initialize_Call(p) ==
    /\ MayCall(p)
    /\ pc' = [pc EXCEPT ![p] = "init_version"]
    /\ UNCHANGED <<chainVars, fluentVars>>
    /\ UNCHANGED <<version, env, m, osThread, initialized, vips, panicMsg, phase>>

\* a panic with no deferred call registered yet: during package init it ends
\* the process
Initialize_VersionCheck(p) ==
    /\ pc[p] = "init_version"
    /\ IF UnsupportedVersion(version)
       THEN /\ pc' = [pc EXCEPT ![p] = "panicked"]
            /\ panicMsg' = [panicMsg EXCEPT ![p] = "unsupported libvips version!"]
            /\ phase' = IF phase = "loading" THEN "crashed" ELSE phase
       ELSE /\ pc' = [pc EXCEPT ![p] = "init_lock"]
            /\ UNCHANGED <<panicMsg, phase>>
    /\ UNCHANGED <<chainVars, fluentVars>>
    /\ UNCHANGED <<version, env, m, osThread, initialized, vips>>

Initialize_Lock(p) ==
    /\ pc[p] = "init_lock"
    /\ m = 0
    /\ m' = p
    /\ pc' = [pc EXCEPT ![p] = "init_osthread"]
    /\ UNCHANGED <<chainVars, fluentVars>>
    /\ UNCHANGED <<version, env, osThread, initialized, vips, panicMsg, phase>>

Initialize_LockOSThread(p) ==
    /\ pc[p] = "init_osthread"
    /\ osThread' = osThread \cup {p}
    /\ pc' = [pc EXCEPT ![p] = "init_vips"]
    /\ UNCHANGED <<chainVars, fluentVars>>
    /\ UNCHANGED <<version, env, m, initialized, vips, panicMsg, phase>>

\* Initialize whose panic leaves the function without running what it deferred
Initialize_VipsInit_NoDeferred(p) ==
    /\ pc[p] = "init_vips"
    /\ \E err \in {0, 1} :
         IF err # 0
         THEN /\ panicMsg' = [panicMsg EXCEPT ![p] = "unable to start vips!"]
              /\ pc' = [pc EXCEPT ![p] = "panicked"]
              /\ phase' = IF phase = "loading" THEN "crashed" ELSE phase
              /\ UNCHANGED vips
         ELSE /\ vips' = [vips EXCEPT !.up = TRUE]
              /\ pc' = [pc EXCEPT ![p] = "init_cache_mem"]
              /\ UNCHANGED <<panicMsg, phase>>
    /\ UNCHANGED <<chainVars, fluentVars>>
    /\ UNCHANGED <<version, env, m, osThread, initialized>>

\* err := C.vips_init(...); a non-zero status panics, and the two deferred
\* calls then run while the panic unwinds
Initialize_VipsInit(p) ==
    /\ pc[p] = "init_vips"
    /\ \E err \in {0, 1} :
         IF err # 0
         THEN /\ panicMsg' = [panicMsg EXCEPT ![p] = "unable to start vips!"]
              /\ pc' = [pc EXCEPT ![p] = "init_defer_osthread"]
              /\ UNCHANGED <<vips, phase>>
         ELSE /\ vips' = [vips EXCEPT !.up = TRUE]
              /\ pc' = [pc EXCEPT ![p] = "init_cache_mem"]
              /\ UNCHANGED <<panicMsg, phase>>
    /\ UNCHANGED <<chainVars, fluentVars>>
    /\ UNCHANGED <<version, env, m, osThread, initialized>>

Initialize_CacheSetMaxMem(p) ==
    /\ pc[p] = "init_cache_mem"
    /\ vips' = [vips EXCEPT !.maxMem = maxCacheMem]
    /\ pc' = [pc EXCEPT ![p] = "init_cache_max"]
    /\ UNCHANGED <<chainVars, fluentVars>>
    /\ UNCHANGED <<version, env, m, osThread, initialized, panicMsg, phase>>

Initialize_CacheSetMax(p) ==
    /\ pc[p] = "init_cache_max"
    /\ vips' = [vips EXCEPT !.maxOps = maxCacheSize]
    /\ pc' = [pc EXCEPT ![p] = "init_concurrency"]
    /\ UNCHANGED <<chainVars, fluentVars>>
    /\ UNCHANGED <<version, env, m, osThread, initialized, panicMsg, phase>>

\* Initialize that sets the concurrency whatever the environment says
Initialize_ConcurrencySet_Always(p) ==
    /\ pc[p] = "init_concurrency"
    /\ vips' = [vips EXCEPT !.concurrency = 1]
    /\ pc' = [pc EXCEPT ![p] = "init_trace"]
    /\ UNCHANGED <<chainVars, fluentVars>>
    /\ UNCHANGED <<version, env, m, osThread, initialized, panicMsg, phase>>

\* if os.Getenv("VIPS_CONCURRENCY") == "" { C.vips_concurrency_set(1) }
\* vips.concurrency is the value last given to vips_concurrency_set; while it
\* is 0 the engine chooses for itself (its own reading of the environment,
\* else the number of processors it detects).
Initialize_ConcurrencySet(p) ==
    /\ pc[p] = "init_concurrency"
    /\ vips' = IF env.VIPS_CONCURRENCY = ""
               THEN [vips EXCEPT !.concurrency = 1]
               ELSE vips
    /\ pc' = [pc EXCEPT ![p] = "init_trace"]
    /\ UNCHANGED <<chainVars, fluentVars>>
    /\ UNCHANGED <<version, env, m, osThread, initialized, panicMsg, phase>>

\* if os.Getenv("VIPS_TRACE") != "" { C.vips_enable_cache_set_trace() }
Initialize_CacheSetTrace(p) ==
    /\ pc[p] = "init_trace"
    /\ vips' = IF env.VIPS_TRACE # ""
               THEN [vips EXCEPT !.trace = TRUE]
               ELSE vips
    /\ pc' = [pc EXCEPT ![p] = "init_flag"]
    /\ UNCHANGED <<chainVars, fluentVars>>
    /\ UNCHANGED <<version, env, m, osThread, initialized, panicMsg, phase>>

\* initialized = true
Initialize_SetFlag(p) ==
    /\ pc[p] = "init_flag"
    /\ initialized' = TRUE
    /\ vips' = [vips EXCEPT !.downs = 0]
    /\ pc' = [pc EXCEPT ![p] = "init_defer_osthread"]
    /\ UNCHANGED <<chainVars, fluentVars>>
    /\ UNCHANGED <<version, env, m, osThread, panicMsg, phase>>

\* defer runtime.UnlockOSThread(): registered last, run first
Initialize_UnlockOSThread(p) ==
    /\ pc[p] = "init_defer_osthread"
    /\ osThread' = osThread \ {p}
    /\ pc' = [pc EXCEPT ![p] = "init_defer_unlock"]
    /\ UNCHANGED <<chainVars, fluentVars>>
    /\ UNCHANGED <<version, env, m, initialized, vips, panicMsg, phase>>

\* defer m.Unlock(); then the call returns, or the panic leaves the function
Initialize_Unlock(p) ==
    /\ pc[p] = "init_defer_unlock"
    /\ m' = 0
    /\ pc' = [pc EXCEPT ![p] = IF panicMsg[p] = "" THEN "idle" ELSE "panicked"]
    /\ phase' = IF phase = "loading"
                THEN (IF panicMsg[p] = "" THEN "running" ELSE "crashed")
                ELSE phase
    /\ UNCHANGED <<chainVars, fluentVars>>
    /\ UNCHANGED <<version, env, osThread, initialized, vips, panicMsg>>

\* a caller that recovers from the panic of an Initialize it called itself
Recover(p) ==
    /\ pc[p] = "panicked"
    /\ phase = "running"
    /\ pc' = [pc EXCEPT ![p] = "idle"]
    /\ panicMsg' = [panicMsg EXCEPT ![p] = ""]
    /\ UNCHANGED <<chainVars, fluentVars>>
    /\ UNCHANGED <<version, env, m, osThread, initialized, vips, phase>>

----------------------------------------------------------------------------
(* func Shutdown() *)

Shutdown_Call(p) ==
    /\ MayCall(p)
    /\ pc' = [pc EXCEPT ![p] = "sd_lock"]
    /\ UNCHANGED <<chainVars, fluentVars>>
    /\ UNCHANGED <<version, env, m, osThread, initialized, vips, panicMsg, phase>>

\* Shutdown that does not wait for the mutex
Shutdown_Lock_NoWait(p) ==
    /\ pc[p] = "sd_lock"
    /\ m' = p
    /\ pc' = [pc EXCEPT ![p] = "sd_check"]
    /\ UNCHANGED <<chainVars, fluentVars>>
    /\ UNCHANGED <<version, env, osThread, initialized, vips, panicMsg, phase>>

Shutdown_Lock(p) ==
    /\ pc[p] = "sd_lock"
    /\ m = 0
    /\ m' = p
    /\ pc' = [pc EXCEPT ![p] = "sd_check"]
    /\ UNCHANGED <<chainVars, fluentVars>>
    /\ UNCHANGED <<version, env, osThread, initialized, vips, panicMsg, phase>>

\* Shutdown without its test of the flag
Shutdown_Check_NoTest(p) ==
    /\ pc[p] = "sd_check"
    /\ pc' = [pc EXCEPT ![p] = "sd_vips"]
    /\ UNCHANGED <<chainVars, fluentVars>>
    /\ UNCHANGED <<version, env, m, osThread, initialized, vips, panicMsg, phase>>

\* if initialized {
Shutdown_Check(p) ==
    /\ pc[p] = "sd_check"
    /\ pc' = [pc EXCEPT ![p] = IF initialized THEN "sd_vips" ELSE "sd_defer_unlock"]
    /\ UNCHANGED <<chainVars, fluentVars>>
    /\ UNCHANGED <<version, env, m, osThread, initialized, vips, panicMsg, phase>>

\* C.vips_shutdown()
Shutdown_VipsShutdown(p) ==
    /\ pc[p] = "sd_vips"
    /\ vips' = [EngineDown EXCEPT !.downs = IF vips.downs < 2 THEN vips.downs + 1 ELSE 2]
    /\ pc' = [pc EXCEPT ![p] = "sd_flag"]
    /\ UNCHANGED <<chainVars, fluentVars>>
    /\ UNCHANGED <<version, env, m, osThread, initialized, panicMsg, phase>>

\* initialized = false
Shutdown_ClearFlag(p) ==
    /\ pc[p] = "sd_flag"
    /\ initialized' = FALSE
    /\ pc' = [pc EXCEPT ![p] = "sd_defer_unlock"]
    /\ UNCHANGED <<chainVars, fluentVars>>
    /\ UNCHANGED <<version, env, m, osThread, vips, panicMsg, phase>>

\* defer m.Unlock()
Shutdown_Unlock(p) ==
    /\ pc[p] = "sd_defer_unlock"
    /\ m' = 0
    /\ pc' = [pc EXCEPT ![p] = "idle"]
    /\ UNCHANGED <<chainVars, fluentVars>>
    /\ UNCHANGED <<version, env, osThread, initialized, vips, panicMsg, phase>>

----------------------------------------------------------------------------
(* A primitive (vipsRead and the others): no lock is taken and the flag is *)
(* not read; the caller is inside the engine from Begin to End.            *)

Primitive_Begin(p) ==
    /\ MayCall(p)
    /\ pc' = [pc EXCEPT ![p] = "primitive"]
    /\ UNCHANGED <<chainVars, fluentVars>>
    /\ UNCHANGED <<version, env, m, osThread, initialized, vips, panicMsg, phase>>

Primitive_End(p) ==
    /\ pc[p] = "primitive"
    /\ pc' = [pc EXCEPT ![p] = "idle"]
    /\ UNCHANGED <<chainVars, fluentVars>>
    /\ UNCHANGED <<version, env, m, osThread, initialized, vips, panicMsg, phase>>

----------------------------------------------------------------------------

LifeNext ==
    \/ PackageInit
    \/ \E p \in Procs : Initialize_Call(p)
    \/ \E p \in Procs : Initialize_VersionCheck(p)
    \/ \E p \in Procs : Initialize_Lock(p)
    \/ \E p \in Procs : Initialize_LockOSThread(p)
    \/ \E p \in Procs : Initialize_VipsInit(p)
    \/ \E p \in Procs : Initialize_CacheSetMaxMem(p)
    \/ \E p \in Procs : Initialize_CacheSetMax(p)
    \/ \E p \in Procs : Initialize_ConcurrencySet(p)
    \/ \E p \in Procs : Initialize_CacheSetTrace(p)
    \/ \E p \in Procs : Initialize_SetFlag(p)
    \/ \E p \in Procs : Initialize_UnlockOSThread(p)
    \/ \E p \in Procs : Initialize_Unlock(p)
    \/ \E p \in Procs : Recover(p)
    \/ \E p \in Procs : Shutdown_Call(p)
    \/ \E p \in Procs : Shutdown_Lock(p)
    \/ \E p \in Procs : Shutdown_Check(p)
    \/ \E p \in Procs : Shutdown_VipsShutdown(p)
    \/ \E p \in Procs : Shutdown_ClearFlag(p)
    \/ \E p \in Procs : Shutdown_Unlock(p)
    \/ \E p \in Procs : Primitive_Begin(p)
    \/ \E p \in Procs : Primitive_End(p)

SpecLife == LifeInit /\ [][LifeNext]_vars

\* the steps of a caller that is inside Initialize, Shutdown or a primitive
Running(p) ==
    \/ Initialize_VersionCheck(p)
    \/ Initialize_Lock(p)
    \/ Initialize_LockOSThread(p)
    \/ Initialize_VipsInit(p)
    \/ Initialize_CacheSetMaxMem(p)
    \/ Initialize_CacheSetMax(p)
    \/ Initialize_ConcurrencySet(p)
    \/ Initialize_CacheSetTrace(p)
    \/ Initialize_SetFlag(p)
    \/ Initialize_UnlockOSThread(p)
    \/ Initialize_Unlock(p)
    \/ Shutdown_Lock(p)
    \/ Shutdown_Check(p)
    \/ Shutdown_VipsShutdown(p)
    \/ Shutdown_ClearFlag(p)
    \/ Shutdown_Unlock(p)
    \/ Primitive_End(p)

\* the scheduler lets every goroutine that can take a step take one in the
\* end, and every engine call returns
SpecLifeFair == SpecLife /\ \A p \in Procs : WF_vars(Running(p))

----------------------------------------------------------------------------
(* The binding in use: the package's init() has run and nobody calls       *)
(* Shutdown.                                                               *)

EngineUp ==
    [ up |-> TRUE, maxMem |-> maxCacheMem, maxOps |-> maxCacheSize, concurrency |-> 1,
      trace |-> FALSE, downs |-> 0 ]

Booted ==
    /\ version = <<8, 2>>
    /\ env = [ VIPS_CONCURRENCY |-> "", VIPS_TRACE |-> "" ]
    /\ m = 0
    /\ osThread = {}
    /\ initialized = TRUE
    /\ vips = EngineUp
    /\ pc = [p \in Procs |-> "idle"]
    /\ panicMsg = [p \in Procs |-> ""]
    /\ phase = "running"

Init ==
    /\ Booted
    /\ ChainStart
    /\ FluentStart

Next ==
    \/ Load
    \/ Rotate
    \/ Flip
    \/ Zoom
    \/ Watermark
    \/ Extract
    \/ ShrinkJpeg
    \/ Shrink
    \/ Embed
    \/ Affine
    \/ Save

Spec == Init /\ [][Next]_vars

SpecQuery == Init /\ [][QueryNext]_vars

InitFluent ==
    /\ Booted
    /\ ChainStart
    /\ FluentInit

SpecFluent == InitFluent /\ [][FluentNext]_vars

----------------------------------------------------------------------------
(* Claims *)

\* C1: when a chain load -> primitives -> save has returned, completed or
\* aborted by a failure at any step, every handle created has been released
\* exactly once: none is live, none was released twice, and none was passed
\* to the engine after its release.
C1_ChainReleasesEveryHandleOnce ==
    /\ \A h \in 1..eng.next : eng.unrefs[h] <= 1
    /\ eng.stale = {}
    /\ stage = "idle" => Live(eng) = {}

\* a step in which caller p makes an engine call of Initialize
InitializeCallsEngine(p) ==
    /\ pc'[p] # pc[p]
    /\ \/ pc[p] \in { "init_vips", "init_cache_mem", "init_cache_max" }
       \/ pc[p] = "init_concurrency" /\ env.VIPS_CONCURRENCY = ""
       \/ pc[p] = "init_trace" /\ env.VIPS_TRACE # ""

\* C2: Initialize is a no-op when the state is already Initialized: it makes
\* no engine init call and no configuration call, and the state stays
\* Initialized.
C2_InitializeNoOpWhenInitialized ==
    [][ \A p \in Procs :
          initialized => ~InitializeCallsEngine(p) /\ initialized' ]_vars

Configured ==
    /\ vips.up
    /\ vips.maxMem = maxCacheMem
    /\ vips.maxOps = maxCacheSize
    /\ env.VIPS_CONCURRENCY = "" => vips.concurrency = 1
    /\ env.VIPS_TRACE # "" => vips.trace

\* C4: at most one caller at a time is between m.Lock() and m.Unlock(), where
\* every engine init, shutdown and configuration call is made; whoever can
\* read the flag under the lock finds it true only for a fully configured
\* engine; and the OS-thread lock is held only inside the mutex.
C4_LifecycleSerialized ==
    /\ \A p \in Procs : pc[p] \in InitLocked \cup ShutdownLocked => m = p
    /\ \A p, q \in Procs :
         pc[p] \in InitLocked \cup ShutdownLocked
           /\ pc[q] \in InitLocked \cup ShutdownLocked => p = q
    /\ (m = 0 \/ \E p \in Procs : pc[p] = "sd_check") /\ initialized => Configured
    /\ \A p \in osThread : m = p

\* one caller is configuring the engine while another waits for the mutex
C4_Witness ==
    \E p, q \in Procs :
        /\ pc[p] = "init_cache_max" /\ p \in osThread
        /\ pc[q] \in { "init_lock", "sd_lock" }

\* C5: a caller is inside a primitive only in state Initialized.
C5_PrimitiveOnlyWhenInitialized ==
    \A p \in Procs : pc[p] = "primitive" => initialized

\* C6: Initialize panics exactly when the version is below 7.40 in
\* lexicographic order or the engine's init fails; a call that panics does
\* not change the flag; any other call ends with the flag set.
C6_InitializePanicsExactlyWhenUnsupported ==
    [][ \A p \in Procs :
          /\ pc[p] \in InitLocked \cup { "init_lock" }
               => ~VersionBelow(version, <<MinMajor, MinMinor>>)
          /\ panicMsg[p] = "unsupported libvips version!"
               => VersionBelow(version, <<MinMajor, MinMinor>>)
          /\ pc'[p] # pc[p] /\ panicMsg'[p] # "" => initialized' = initialized
          /\ pc[p] \in { "init_defer_osthread", "init_defer_unlock" } /\ panicMsg[p] = ""
               => initialized ]_vars

\* C7: vipsExtract with width or height above MAX_SIZE returns the
\* size-exceeded error and no handle, makes no extract call and no call on
\* the error buffer, and has released its input once; otherwise it makes
\* exactly one extract call.
C7_ExtractSizeTest ==
    ret.op = "vipsExtract" =>
        IF ret.args[3] > MAX_SIZE \/ ret.args[4] > MAX_SIZE
        THEN /\ ret.err = ErrorsNew("Maximum image size exceeded")
             /\ ret.out = NoHandle
             /\ ret.made = 0
             /\ eng.log = << "g_object_unref" >>
             /\ eng.unrefs[ret.in] = 1
        ELSE Count(eng, "vips_extract_area_bridge") = 1

\* an extract of more than MAX_SIZE has been refused
C7_Witness ==
    /\ ret.op = "vipsExtract"
    /\ ret.args[3] > MAX_SIZE
    /\ ret.args[4] <= MAX_SIZE
    /\ ~ret.err.nil

\* C8: vipsRead of a buffer whose detected type is UNKNOWN returns the
\* unsupported-format error, no handle and type UNKNOWN without a load call
\* (and, for the empty buffer, without a detection call); a failed load of a
\* recognised format returns the error made of the engine's text, type
\* UNKNOWN and no handle.
C8_ReadErrors ==
    ret.op = "vipsRead" =>
        IF vipsImageType(EngineStart, ret.buf, FALSE).type = "UNKNOWN"
        THEN /\ ret.err = ErrorsNew("Unsupported image format")
             /\ ret.out = NoHandle
             /\ ret.type = "UNKNOWN"
             /\ ret.made = 0
             /\ Count(eng, "vips_init_image") = 0
             /\ ret.buf.len = 0 => eng.log = <<>>
        ELSE /\ Count(eng, "vips_init_image") = 1
             /\ ret.err.nil => ret.out # NoHandle /\ ret.made = 1 /\ ret.type # "UNKNOWN"
             /\ ~ret.err.nil =>
                  /\ ret.err.text = ""
                  /\ ret.err.vips # <<>>
                  /\ ret.err.vips[Len(ret.err.vips)] =
                        [ op |-> "vips_init_image", call |-> eng.call ]
                  /\ ret.out = NoHandle
                  /\ ret.made = 0
                  /\ ret.type = "UNKNOWN"

\* bytes the engine has a loader for, but of no type the binding knows, have
\* been refused
C8_Witness ==
    /\ ret.op = "vipsRead"
    /\ ret.buf.format = "Gif"
    /\ ret.err = ErrorsNew("Unsupported image format")

\* C9: an error made of the engine's text holds only text of the call that
\* returns it, and the error buffer is empty once that call has returned.
C9_NoStaleErrorText ==
    ~ret.err.nil /\ ret.err.text = "" =>
        /\ eng.errbuf = <<>>
        /\ \A i \in 1..Len(ret.err.vips) : ret.err.vips[i].call = eng.call


\* C10: Metadata called on an Image after operations that succeeded on it
\* reports the size and type those operations give, each applied to the
\* result of the one before, not those of the buffer the Image was made of.
C10_FluentChaining ==
    meta.valid =>
        /\ meta.width = described.width
        /\ meta.height = described.height
        /\ meta.type = ImageTypeName(described.type)

\* the run of TestFluentInterface: a JPEG cropped by width, flipped and
\* converted to PNG reports the cropped width and type png
C10_Witness ==
    /\ applied = << "CropByWidth", "Flip", "Convert" >>
    /\ meta.valid
    /\ meta.width = 2
    /\ meta.height = 1
    /\ meta.type = "png"

\* a caller whose Initialize has made all its engine calls and not panicked
InitializeSucceeded(p) ==
    /\ pc[p] \in { "init_flag", "init_defer_osthread", "init_defer_unlock" }
    /\ panicMsg[p] = ""

\* C11 as stated: after a successful Initialize with VIPS_CONCURRENCY unset,
\* the concurrency is the engine's own (auto-detected) default: the binding
\* has set none.
C11_ConcurrencyLeftToEngine ==
    \A p \in Procs :
        InitializeSucceeded(p) /\ env.VIPS_CONCURRENCY = ""
            => vips.concurrency = EngineDown.concurrency

\* C11 amended: after a successful Initialize with VIPS_CONCURRENCY unset the
\* binding has set the concurrency to 1; with an override in the environment
\* it has set none, and the engine's own choice stands.
C11_ConcurrencyOneUnlessOverridden ==
    \A p \in Procs :
        InitializeSucceeded(p)
            => vips.concurrency = IF env.VIPS_CONCURRENCY = ""
                                  THEN 1
                                  ELSE EngineDown.concurrency

\* an Initialize without override is about to return, the concurrency at 1
C11_Witness ==
    \E p \in Procs :
        /\ pc[p] = "init_defer_unlock"
        /\ panicMsg[p] = ""
        /\ env.VIPS_CONCURRENCY = ""
        /\ vips.concurrency = 1

EncoderCalls ==
    Count(eng, "vips_webpsave_bridge") + Count(eng, "vips_pngsave_bridge")
        + Count(eng, "vips_jpegsave_bridge")

\* the handles the engine made during the binding call in progress
MadeInCall == (eng.next - ret.made + 1)..eng.next

\* C12: when the engine reports the colourspace as not supported, the save
\* makes no convert call, encodes from the handle it was given and returns
\* no error unless the encoder fails; when it is supported there is one
\* convert call, to the configured interpretation, or to sRGB when none is
\* configured.
C12_PreSaveSkipsUnsupported ==
    ret.op = "vipsSave" =>
        LET supported == ret.args[1]
            o         == ret.args[2]
            failCs    == ret.args[3]
            failEnc   == ret.args[4]
        IN IF ~supported
           THEN /\ Count(eng, "vips_colourspace_bridge") = 0
                /\ ret.made = 0
                /\ ret.out = ret.in
                /\ EncoderCalls = 1
                /\ ret.err.nil <=> ~failEnc
           ELSE /\ Count(eng, "vips_colourspace_bridge") = 1
                /\ ~failCs =>
                     /\ ret.made = 1
                     /\ ret.out = eng.next
                     /\ eng.pix[ret.out].interpretation =
                           IF o.Interpretation = 0
                           THEN INTERPRETATION_sRGB
                           ELSE o.Interpretation
                /\ failCs => ~ret.err.nil /\ ret.out = NoHandle /\ EncoderCalls = 0

\* a save with no interpretation configured has converted to sRGB
C12_Witness ==
    /\ ret.op = "vipsSave"
    /\ ret.args[1] /\ ret.args[2].Interpretation = 0
    /\ ret.err.nil
    /\ eng.pix[ret.out].interpretation = INTERPRETATION_sRGB

\* the primitives that take one image and give one
GeometricPrimitives ==
    { "vipsRotate", "vipsFlip", "vipsZoom", "vipsExtract", "vipsShrink",
      "vipsShrinkJpeg", "vipsEmbed", "vipsAffine" }

\* C14: when a geometric primitive returns, with or without error, its input
\* has been released exactly once; with an error it returns no handle, without
\* one it returns a new live handle; and vipsAffine has released the
\* interpolator it made exactly once.
C14_GeometricPrimitivesConsumeInput ==
    ret.op \in GeometricPrimitives =>
        /\ eng.unrefs[ret.in] = 1
        /\ ~ret.err.nil => ret.out = NoHandle
        /\ ret.err.nil => ret.out \in MadeInCall /\ eng.unrefs[ret.out] = 0
        /\ Count(eng, "g_object_unref") = IF ret.op = "vipsAffine" THEN 2 ELSE 1
        /\ ret.op = "vipsAffine" =>
              /\ Count(eng, "vips_interpolate_new") = 1
              /\ \E i \in MadeInCall :
                    /\ i # ret.out
                    /\ eng.unrefs[i] = 1
                    /\ MadeInCall \ {i} = { h \in MadeInCall : h = ret.out }

\* a vipsAffine whose engine call failed has returned
C14_Witness ==
    /\ ret.op = "vipsAffine"
    /\ ~ret.err.nil
    /\ ret.made = 1
    /\ eng.unrefs[ret.in] = 1 /\ eng.unrefs[eng.next] = 1

\* C15: when vipsSave returns, on every path, the handle it was given and the
\* handle pre-save made, if any, have each been released exactly once.
C15_SaveReleasesEveryHandleOnce ==
    ret.op = "vipsSave" =>
        /\ eng.unrefs[ret.in] = 1
        /\ \A h \in MadeInCall : eng.unrefs[h] = 1

\* C16: when vipsWatermark returns, with or without error, its input has been
\* released exactly once.
C16_WatermarkConsumesInput ==
    ret.op = "vipsWatermark" => eng.unrefs[ret.in] = 1

\* C18: after a save the caller's options are the options it gave, also when
\* pre-save has put the sRGB default into an unset Interpretation.
C18_SaveLeavesCallerOptions ==
    ret.op = "vipsSave" => opts = ret.args[2]

\* a save given no interpretation has converted to sRGB, and the caller's
\* options still say 0
C18_Witness ==
    /\ ret.op = "vipsSave"
    /\ ret.args[1] /\ ~ret.args[3]
    /\ eng.pix[ret.out].interpretation = INTERPRETATION_sRGB
    /\ opts.Interpretation = 0

C17_BufferQueriesDisposeOfLoad ==
    ret.op \in { "vipsColourspaceIsSupportedBuffer", "vipsInterpretationBuffer" } =>
        /\ \A h \in MadeInCall : eng.unrefs[h] = 1
        /\ eng.stale \cap MadeInCall = {}
        /\ ~ret.err.nil => ret.made = 0 /\ Count(eng, "g_object_unref") = 0

\* C20: a caller that is not between m.Lock() and the deferred m.Unlock()
\* of a call it is making holds neither the mutex nor the OS-thread lock,
\* whether its last call returned or panicked; and a caller that holds
\* either gives it up in the end.
C20_LockNeverLeftHeld ==
    /\ [](\A p \in Procs :
            pc[p] \notin InitLocked \cup ShutdownLocked
                => m # p /\ p \notin osThread)
    /\ \A p \in Procs : (m = p) ~> (m # p)
    /\ \A p \in Procs : (p \in osThread) ~> (p \notin osThread)

\* a second caller holds the mutex after the Initialize of a first has
\* panicked on the engine's failed init
C20_Witness ==
    \E p, q \in Procs :
        /\ pc[p] = "panicked"
        /\ panicMsg[p] = "unable to start vips!"
        /\ q # p
        /\ m = q
        /\ pc[q] \in { "init_osthread", "sd_check" }

====
